---- MODULE Spec2Model ----
(***************************************************************************)
(* Model of pyDNase/scripts/wellington_footprints.py (Python 2).           *)
(*                                                                         *)
(* Two specifications share the variables:                                 *)
(*   Spec     the script as a whole: parameter checks, loading, output     *)
(*            set-up, ordering, pool.map over 32 chunks, the writer loop.  *)
(*   SpecPct  the pure function percentile(N, percent) applied to a        *)
(*            bounded family of samples.                                   *)
(*                                                                         *)
(* Python values: None and floats are records [none, num, den]; a float    *)
(* is the rational num/den (den > 0).                                      *)
(***************************************************************************)
EXTENDS Integers, Sequences, FiniteSets, TLC

VARIABLES
    pc,             \* position of the main process in the script
    args,           \* the argparse namespace (fields set as they are checked)
    outdirVisible,  \* the entries of the output directory that line 136 counts
    regionsFile,    \* the BED file's intervals in file order
    loaded,         \* regions / reads have been loaded
    dirs,           \* directories created by the run
    files,          \* created files: name -> sequence of lines
    handles,        \* open file handles (by file name)
    orderedbychr,   \* the list built at line 154
    scorerOnNone,   \* what the Scorer does with withCutoff=None
    nextTask,       \* index of the next task batch the pool hands out
    inflight,       \* task batches being computed by a worker
    result,         \* pool.map's result list: one slot per chunk
    scorerCutoffs,  \* cutoffs passed to fp.footprints in footprint_regions
    written,        \* intervals the writer loop has handled
    pN,             \* SpecPct: the caller's list
    pPercent,       \* SpecPct: the percent argument
    pRet            \* SpecPct: the returned value

vars == <<pc, args, outdirVisible, regionsFile, loaded, dirs, files, handles,
          orderedbychr, scorerOnNone, nextTask, inflight, result,
          scorerCutoffs, written, pN, pPercent, pRet>>

pipeVars == <<args, outdirVisible, regionsFile, loaded, dirs, files, handles,
              orderedbychr, scorerOnNone, nextTask, inflight, result,
              scorerCutoffs, written>>

pctVars == <<pN, pPercent, pRet>>

----------------------------------------------------------------------------
(* Bounds *)
MaxThreads == 2          \* args.threads
MaxFDRIterations == 1    \* args.FDR_iterations
MaxSample == 4           \* SpecPct: length of the sample
MaxNeg == 1              \* SpecPct: sample values are -MaxNeg..MaxValue
MaxValue == 4

----------------------------------------------------------------------------
(* Python values *)
None == [none |-> TRUE, num |-> 0, den |-> 1]

float(x) == [none |-> FALSE, num |-> x, den |-> 1]

Frac(n, d) == [none |-> FALSE, num |-> n, den |-> d]

\* a == b on two floats
FloatEq(a, b) == ~a.none /\ ~b.none /\ a.num * b.den = b.num * a.den

\* a < b and a <= b on two floats
FloatLt(a, b) == a.num * b.den < b.num * a.den

FloatLe(a, b) == a.num * b.den <= b.num * a.den

\* Python 2 ordering of a float-or-None against an int: None sorts below
\* every number.
PyLess(x, n) == IF x.none THEN TRUE ELSE x.num < n * x.den

----------------------------------------------------------------------------
(* sorted(N) on numbers: a stable insertion sort *)
RECURSIVE InsertInt(_, _)
InsertInt(x, S) ==
    IF S = <<>> THEN <<x>>
    ELSE IF x < Head(S) THEN <<x>> \o S
         ELSE <<Head(S)>> \o InsertInt(x, Tail(S))

RECURSIVE SortInts(_)
SortInts(S) ==
    IF S = <<>> THEN <<>>
    ELSE InsertInt(S[Len(S)], SortInts(SubSeq(S, 1, Len(S) - 1)))

sorted(N) == SortInts(N)

----------------------------------------------------------------------------
(* percentile, lines 89-108.  percent is the rational percent.num/den.     *)
\* mutant: interpolation weights swapped
percentileSwapped(N, percent) ==
    IF N = <<>> THEN None
    ELSE LET S  == sorted(N)
             kn == (Len(S) - 1) * percent.num
             f  == kn \div percent.den
             c  == IF kn % percent.den = 0 THEN f ELSE f + 1
         IN IF f = c THEN float(S[f + 1])
            ELSE Frac(S[f + 1] * (kn - f * percent.den)
                        + S[c + 1] * (c * percent.den - kn),
                      percent.den)

percentile(N, percent) ==
    IF N = <<>> THEN None
    ELSE LET S  == sorted(N)
             kn == (Len(S) - 1) * percent.num       \* k = kn / percent.den
             f  == kn \div percent.den              \* math.floor(k)
             c  == IF kn % percent.den = 0 THEN f ELSE f + 1   \* math.ceil(k)
         IN IF f = c THEN float(S[f + 1])
            ELSE Frac(S[f + 1] * (c * percent.den - kn)
                        + S[c + 1] * (kn - f * percent.den),
                      percent.den)

----------------------------------------------------------------------------
(* GenomicInterval and the region file *)
Interval(c, s, e) == [chromosome |-> c, startbp |-> s, endbp |-> e]

\* the intervals region files are drawn from, in one file order
\* (chromosomes 1 and 2 stand for two chromosome names in their order)
BaseFile ==
    << Interval(2, 3, 5), Interval(1, 2, 4), Interval(2, 1, 2),
       Interval(1, 1, 4), Interval(1, 3, 5) >>

Range(S) == { S[i] : i \in DOMAIN S }

RECURSIVE Keep(_, _)
Keep(S, K) ==
    IF S = <<>> THEN <<>>
    ELSE (IF Head(S) \in K THEN <<Head(S)>> ELSE <<>>) \o Keep(Tail(S), K)

\* region files: any of the intervals, in the base order (which is sorted
\* neither by chromosome nor by start)
RegionFiles == { Keep(BaseFile, K) : K \in SUBSET Range(BaseFile) }

\* regions.intervals: chromosome -> list of its intervals in file order
RECURSIVE SelectChrom(_, _)
SelectChrom(S, c) ==
    IF S = <<>> THEN <<>>
    ELSE IF Head(S).chromosome = c THEN <<Head(S)>> \o SelectChrom(Tail(S), c)
         ELSE SelectChrom(Tail(S), c)

RegionIntervals(file) ==
    [c \in { iv.chromosome : iv \in Range(file) } |-> SelectChrom(file, c)]

\* the order of GenomicInterval objects: chromosome, then start basepair
IntervalLess(a, b) ==
    \/ a.chromosome < b.chromosome
    \/ a.chromosome = b.chromosome /\ a.startbp < b.startbp

\* Python's list comparison A < B: the first differing pair decides, a
\* proper prefix is smaller
ListLess(A, B) ==
    LET n == IF Len(A) < Len(B) THEN Len(A) ELSE Len(B)
        D == { i \in 1..n : A[i] # B[i] }
    IN IF D = {} THEN Len(A) < Len(B)
       ELSE LET i == CHOOSE k \in D : \A m \in D : k <= m
            IN IntervalLess(A[i], B[i])

\* sorted(<list of lists>)
RECURSIVE InsertList(_, _)
InsertList(x, S) ==
    IF S = <<>> THEN <<x>>
    ELSE IF ListLess(x, Head(S)) THEN <<x>> \o S
         ELSE <<Head(S)>> \o InsertList(x, Tail(S))

RECURSIVE SortLists(_)
SortLists(S) ==
    IF S = <<>> THEN <<>>
    ELSE InsertList(S[Len(S)], SortLists(SubSeq(S, 1, Len(S) - 1)))

\* sorted(sublist, key=lambda peak: peak.startbp)
RECURSIVE InsertByStart(_, _)
InsertByStart(x, S) ==
    IF S = <<>> THEN <<x>>
    ELSE IF x.startbp < Head(S).startbp THEN <<x>> \o S
         ELSE <<Head(S)>> \o InsertByStart(x, Tail(S))

RECURSIVE SortByStart(_)
SortByStart(S) ==
    IF S = <<>> THEN <<>>
    ELSE InsertByStart(S[Len(S)], SortByStart(SubSeq(S, 1, Len(S) - 1)))

RECURSIVE Flatten(_)
Flatten(SS) ==
    IF SS = <<>> THEN <<>> ELSE Head(SS) \o Flatten(Tail(SS))

\* mutant: the sublists are not sorted by start
OrderedByChrUnsorted(values) == Flatten(SortLists(values))

\* line 154; values is regions.intervals.values(), in the dict's order
OrderedByChr(values) ==
    Flatten([i \in DOMAIN SortLists(values) |-> SortByStart(SortLists(values)[i])])

----------------------------------------------------------------------------
(* The Footprint Scorer (pyDNase.footprinting): a deterministic mock.      *)

\* score of basepair b of chromosome c (wellington or wellington1D)
ScoreAt(c, b, oneD) == 0 - ((2 * c + 3 * b + (IF oneD THEN 1 ELSE 0)) % 4)

\* footprinting.wellington / wellington1D: one score per basepair
wellington(each, oneD) ==
    [interval |-> each,
     scores   |-> [i \in 1..(each.endbp - each.startbp) |->
                      ScoreAt(each.chromosome, each.startbp + i - 1, oneD)]]

\* fp.calculate(reads, FDR=True, ...)[0]: the statistic of one randomised
\* run; an interval with fewer than two basepairs has no window
calculateFDR(fp) ==
    IF Len(fp.scores) < 2 THEN <<>>
    ELSE [i \in 1..Len(fp.scores) |->
             0 - ((fp.interval.chromosome + 2 * (fp.interval.startbp + i)) % 4)]

Call(c, s, e) == [chromosome |-> c, startbp |-> s, endbp |-> e]

\* one call per basepair whose score is below the cutoff
RECURSIVE CallsFrom(_, _, _)
CallsFrom(fp, cutoff, i) ==
    IF i > Len(fp.scores) THEN <<>>
    ELSE (IF fp.scores[i] * cutoff.den < cutoff.num
          THEN <<Call(fp.interval.chromosome, fp.interval.startbp + i - 1,
                      fp.interval.startbp + i)>>
          ELSE <<>>) \o CallsFrom(fp, cutoff, i + 1)

\* merging of calls that touch
RECURSIVE MergeCalls(_)
MergeCalls(S) ==
    IF Len(S) < 2 THEN S
    ELSE IF S[1].endbp = S[2].startbp
         THEN MergeCalls(<<Call(S[1].chromosome, S[1].startbp, S[2].endbp)>>
                            \o SubSeq(S, 3, Len(S)))
         ELSE <<S[1]>> \o MergeCalls(Tail(S))

\* fp.footprints(withCutoff=cutoff, merge=merge) for a numeric cutoff, and
\* for None when the Scorer does not raise: onNone = "all" (None above every
\* score) or "empty" (None below every score)
footprints(fp, cutoff, merge, onNone) ==
    LET raw == IF cutoff.none
               THEN (IF onNone = "all"
                     THEN [i \in 1..Len(fp.scores) |->
                              Call(fp.interval.chromosome,
                                   fp.interval.startbp + i - 1,
                                   fp.interval.startbp + i)]
                     ELSE <<>>)
               ELSE CallsFrom(fp, cutoff, 1)
    IN IF merge THEN MergeCalls(raw) ELSE raw

----------------------------------------------------------------------------
(* footprint_regions, lines 157-185 *)

RECURSIVE Repeat(_, _)
Repeat(S, n) == IF n <= 0 THEN <<>> ELSE S \o Repeat(S, n - 1)

\* the Scorer call of lines 163-166
Footprint(each, a) == wellington(each, a.one_dimension)

\* lines 169-176: the list handed to percentile; np.concatenate of an empty
\* list of arrays raises
NullPool(each, a) == Repeat(calculateFDR(Footprint(each, a)), a.FDR_iterations)

Fdr(each, a) == percentile(NullPool(each, a), a.FDR_cutoff)

\* mutant: the guard of line 178 as "<="
FdrGuardLe(fdr, a) == IF fdr.none THEN TRUE ELSE fdr.num <= a.FDR_limit * fdr.den

\* line 178: fdr < args.FDR_limit
FdrGuard(fdr, a) == PyLess(fdr, a.FDR_limit)

\* lines 177-182 for one interval: [fp, fdr_fps]
Entry(each, a, onNone) ==
    LET fp  == Footprint(each, a)
        fdr == Fdr(each, a)
    IN [fp      |-> fp,
        fdr_fps |-> IF FdrGuard(fdr, a)
                    THEN footprints(fp, fdr, ~a.dont_merge_footprints, onNone)
                    ELSE <<>>]

\* the interval makes footprint_regions raise
EntryRaises(each, a, onNone) ==
    \/ a.FDR_iterations <= 0
    \/ Fdr(each, a).none /\ FdrGuard(Fdr(each, a), a) /\ onNone = "raise"

footprint_regions(intervals, a, onNone) ==
    [i \in DOMAIN intervals |-> Entry(intervals[i], a, onNone)]

footprint_regions_raises(intervals, a, onNone) ==
    \E i \in DOMAIN intervals : EntryRaises(intervals[i], a, onNone)

\* the cutoffs footprint_regions passes to fp.footprints: those of the
\* intervals it reaches (up to the first one that raises) whose guard holds
CutoffsPassed(intervals, a, onNone) ==
    { Fdr(intervals[j], a) : j \in { k \in DOMAIN intervals :
          /\ a.FDR_iterations > 0
          /\ \A m \in 1..(k - 1) : ~EntryRaises(intervals[m], a, onNone)
          /\ FdrGuard(Fdr(intervals[k], a), a) } }

----------------------------------------------------------------------------
(* np.array_split(np.array(orderedbychr), 32), line 192 *)
NumChunks == 32

\* 0-based offset of chunk i (0-based) in a list of n items: the first
\* n % 32 chunks hold n \div 32 + 1 items, the others n \div 32
ChunkStart(n, i) ==
    i * (n \div NumChunks) + (IF i < n % NumChunks THEN i ELSE n % NumChunks)

array_split(S) ==
    [i \in 1..NumChunks |->
        SubSeq(S, ChunkStart(Len(S), i - 1) + 1, ChunkStart(Len(S), i))]

(* Pool.map: the 32 items are handed out in batches of MapChunkSize items  *)
(* (ceil(32 / (4 * processes))); the result list has one slot per item.    *)
PoolFactor == 4

MapChunkSize(threads) ==
    (NumChunks \div (threads * PoolFactor))
      + (IF NumChunks % (threads * PoolFactor) = 0 THEN 0 ELSE 1)

NumBatches(threads) ==
    (NumChunks + MapChunkSize(threads) - 1) \div MapChunkSize(threads)

\* the (1-based) items of batch j (0-based)
BatchItems(j, threads) ==
    { i \in 1..NumChunks : (i - 1) \div MapChunkSize(threads) = j }

Pending == [ready |-> FALSE, value |-> <<>>]

Ready(v) == [ready |-> TRUE, value |-> v]

\* mutant: a finished batch is appended behind the results already there
\* (completion order)
StoreResultCompletionOrder(res, items, vals) ==
    LET k  == Cardinality({ i \in 1..NumChunks : res[i].ready })
        lo == CHOOSE m \in items : \A n \in items : m <= n
    IN [i \in 1..NumChunks |->
          IF i > k /\ i <= k + Cardinality(items)
          THEN Ready(vals[lo + (i - k - 1)])
          ELSE IF i <= k THEN res[i] ELSE Pending]

\* a finished batch fills the slots of its own items
StoreResult(res, items, vals) ==
    [i \in 1..NumChunks |-> IF i \in items THEN Ready(vals[i]) ELSE res[i]]

----------------------------------------------------------------------------
(* Parameter strings: a string is the list of its comma separated fields;  *)
(* a field is an integer literal or something int() rejects.               *)
Tok(v) == [ok |-> TRUE, val |-> v]

Bad == [ok |-> FALSE, val |-> 0]

RangeStrings ==
    { <<Tok(11), Tok(16), Tok(2)>>,      \* "11,16,2"
      <<Tok(5), Tok(5), Tok(1)>>,        \* "5,5,1": an empty range
      <<Tok(1), Tok(5), Tok(0)>>,        \* "1,5,0": step 0
      <<Tok(1), Tok(2)>>,                \* "1,2": a field is missing
      <<Tok(1), Bad, Tok(1)>> }          \* "1,x,1"

PvStrings ==
    { <<Tok(-1), Tok(-2)>>,              \* "-1,-2"
      <<Bad>>,                           \* ""
      <<Tok(-1), Bad>> }                 \* "-1,x"

FDRCutoffs == { Frac(0, 1), Frac(1, 2), Frac(1, 1) }

FDRLimits == { -2, -1, 0 }

\* directory entries: hidden is f[0] == "."
Hidden == [hidden |-> TRUE, name |-> "git"]

Stale == [hidden |-> FALSE, name |-> "old.bed"]

OutdirListings == SUBSET { Hidden, Stale }

\* range(a, b, s) for s # 0
PyRange(a, b, s) ==
    LET n == IF s > 0
             THEN (IF b > a THEN (b - a + s - 1) \div s ELSE 0)
             ELSE (IF a > b THEN (a - b - s - 1) \div (0 - s) ELSE 0)
    IN [i \in 1..n |-> a + (i - 1) * s]

\* map(int, string.split(",")) raises
IntsRaise(str) == \E i \in DOMAIN str : ~str[i].ok

\* lines 112-119: TRUE when xrange_from_string raises ValueError
xrange_from_string_raises(str) ==
    \/ IntsRaise(str)
    \/ Len(str) < 3
    \/ str[3].val = 0
    \/ PyRange(str[1].val, str[2].val, str[3].val) = <<>>

\* lines 112-119: the value returned otherwise
xrange_from_string(str) == PyRange(str[1].val, str[2].val, str[3].val)

\* line 128
ParseInts(str) == [i \in DOMAIN str |-> str[i].val]

----------------------------------------------------------------------------
(* Files and lines *)
File(dir, kind, cutoff) == [dir |-> dir, kind |-> kind, cutoff |-> cutoff]

WigFile == File("", "wig", 0)       \* <prefix>.WellingtonFootprints.wig

FdrFile == File("", "fdr", 0)       \* <prefix>.WellingtonFootprints.FDR.<c>.bed

\* the directory line 146 creates and the one lines 208-210 open files in
MadeDir == "p value cutoffs"

PvDir == "p_value_cutoffs"

PvFile(cutoff) == File(PvDir, "pv", cutoff)

Line(kind, a, b, c) == [kind |-> kind, a |-> a, b |-> b, c |-> c]

TrackLine == Line("track", 0, 0, 0)                       \* line 151

\* line 198
FixedStepLine(fp) ==
    Line("fixedStep", fp.interval.chromosome, fp.interval.startbp, 1)

\* lines 199-200
ScoreLines(fp) == [i \in DOMAIN fp.scores |-> Line("score", fp.scores[i], 0, 0)]

\* print >> f, footprint
BedLines(calls) ==
    [i \in DOMAIN calls |->
        Line("bed", calls[i].chromosome, calls[i].startbp, calls[i].endbp)]

\* lines 198-200: what one interval adds to the score track
WigRecord(fp) == <<FixedStepLine(fp)>> \o ScoreLines(fp)

\* open(name, mode) on the files so far: "w" truncates, "a" keeps
OpenFile(fs, name, mode) ==
    IF mode = "a" /\ name \in DOMAIN fs THEN fs
    ELSE [n \in DOMAIN fs \cup {name} |-> IF n = name THEN <<>> ELSE fs[n]]

AppendLines(fs, name, lines) == [fs EXCEPT ![name] = @ \o lines]

\* lines 207-213 for one interval: every cutoff file is opened for append,
\* written and closed
RECURSIVE WritePv(_, _, _)
WritePv(fs, cutoffs, fp) ==
    IF cutoffs = <<>> THEN fs
    ELSE WritePv(AppendLines(OpenFile(fs, PvFile(Head(cutoffs)), "a"),
                        PvFile(Head(cutoffs)),
                        BedLines(footprints(fp, float(Head(cutoffs)), TRUE, "empty"))),
                 Tail(cutoffs), fp)

----------------------------------------------------------------------------
(* The script *)
ArgsInit ==
    [shoulder_sizes |-> <<>>, footprint_sizes |-> <<>>, pv_cutoffs |-> <<>>,
     FDR_cutoff |-> Frac(0, 1), FDR_limit |-> 0, FDR_iterations |-> 0,
     threads |-> 0, one_dimension |-> FALSE, dont_merge_footprints |-> FALSE]

ErrorPcs == {"error_validation", "error_pool", "error_task", "error_io"}

Terminal == ErrorPcs \cup {"done"}

Init ==
    /\ pc = "parse_ranges"
    /\ args = ArgsInit
    /\ outdirVisible = {}
    /\ regionsFile = <<>>
    /\ loaded = FALSE
    /\ dirs = {}
    /\ files = <<>>
    /\ handles = {}
    /\ orderedbychr = <<>>
    /\ scorerOnNone \in {"raise", "all"}
    /\ nextTask = 0
    /\ inflight = {}
    /\ result = [i \in 1..NumChunks |-> Pending]
    /\ scorerCutoffs = {}
    /\ written = 0
    /\ pN = <<>>
    /\ pPercent = Frac(0, 1)
    /\ pRet = None

\* lines 121-125
ParseRanges ==
    /\ pc = "parse_ranges"
    /\ \E sh \in RangeStrings, fs \in RangeStrings :
          IF xrange_from_string_raises(sh) \/ xrange_from_string_raises(fs)
          THEN /\ pc' = "error_validation"
               /\ args' = args
          ELSE /\ pc' = "parse_pv"
               /\ args' = [args EXCEPT !.shoulder_sizes = xrange_from_string(sh),
                                       !.footprint_sizes = xrange_from_string(fs)]
    /\ UNCHANGED <<outdirVisible, regionsFile, loaded, dirs, files, handles,
                   orderedbychr, scorerOnNone, nextTask, inflight,
                   result, scorerCutoffs, written>>
    /\ UNCHANGED pctVars

\* lines 127-130
ParsePv ==
    /\ pc = "parse_pv"
    /\ \E pv \in PvStrings :
          IF IntsRaise(pv)
          THEN /\ pc' = "error_validation"
               /\ args' = args
          ELSE /\ pc' = "check_fdr"
               /\ args' = [args EXCEPT !.pv_cutoffs = ParseInts(pv)]
    /\ UNCHANGED <<outdirVisible, regionsFile, loaded, dirs, files, handles,
                   orderedbychr, scorerOnNone, nextTask, inflight,
                   result, scorerCutoffs, written>>
    /\ UNCHANGED pctVars

\* lines 132-133
CheckFDR ==
    /\ pc = "check_fdr"
    /\ \E cut \in FDRCutoffs, lim \in FDRLimits :
          /\ args' = [args EXCEPT !.FDR_cutoff = cut, !.FDR_limit = lim]
          /\ pc' = IF /\ 0 < cut.num /\ cut.num < cut.den
                      /\ lim < 0
                   THEN "check_outdir" ELSE "error_validation"
    /\ UNCHANGED <<outdirVisible, regionsFile, loaded, dirs, files, handles,
                   orderedbychr, scorerOnNone, nextTask, inflight,
                   result, scorerCutoffs, written>>
    /\ UNCHANGED pctVars

\* line 136: the entries that are not hidden
VisibleEntries(listing) == { f \in listing : ~f.hidden }

\* mutant: the directory of line 146 is made before the listing is checked
CheckOutdirAfterMakedirs ==
    /\ pc = "check_outdir"
    /\ dirs' = dirs \cup {MadeDir}
    /\ \E listing \in OutdirListings :
          /\ outdirVisible' = VisibleEntries(listing)
          /\ pc' = IF Cardinality(VisibleEntries(listing)) = 0
                   THEN "load" ELSE "error_validation"
    /\ UNCHANGED <<args, regionsFile, loaded, files, handles, orderedbychr,
                   scorerOnNone, nextTask, inflight, result, scorerCutoffs,
                   written>>
    /\ UNCHANGED pctVars

\* lines 135-136
CheckOutdir ==
    /\ pc = "check_outdir"
    /\ \E listing \in OutdirListings :
          /\ outdirVisible' = VisibleEntries(listing)
          /\ pc' = IF Cardinality(VisibleEntries(listing)) = 0
                   THEN "load" ELSE "error_validation"
    /\ UNCHANGED <<args, regionsFile, loaded, dirs, files, handles,
                   orderedbychr, scorerOnNone, nextTask, inflight, result,
                   scorerCutoffs, written>>
    /\ UNCHANGED pctVars

\* lines 142-143
Load ==
    /\ pc = "load"
    /\ \E f \in RegionFiles : regionsFile' = f
    /\ loaded' = TRUE
    /\ pc' = "makedirs"
    /\ UNCHANGED <<outdirVisible, args, dirs, files, handles, orderedbychr,
                   scorerOnNone, nextTask, inflight, result,
                   scorerCutoffs, written>>
    /\ UNCHANGED pctVars

\* line 146
MakeDirs ==
    /\ pc = "makedirs"
    /\ dirs' = dirs \cup {MadeDir}
    /\ pc' = "open"
    /\ UNCHANGED <<outdirVisible, args, regionsFile, loaded, files, handles,
                   orderedbychr, scorerOnNone, nextTask, inflight,
                   result, scorerCutoffs, written>>
    /\ UNCHANGED pctVars

\* lines 147-151
OpenOutputs ==
    /\ pc = "open"
    /\ files' = AppendLines(OpenFile(OpenFile(files, WigFile, "w"), FdrFile, "w"),
                       WigFile, <<TrackLine>>)
    /\ handles' = handles \cup {WigFile, FdrFile}
    /\ pc' = "order"
    /\ UNCHANGED <<outdirVisible, args, regionsFile, loaded, dirs,
                   orderedbychr, scorerOnNone, nextTask, inflight, result,
                   scorerCutoffs, written>>
    /\ UNCHANGED pctVars

\* the orders in which a dict can list the chromosomes of the region file
ValueOrders(file) ==
    LET C == DOMAIN RegionIntervals(file)
    IN { p \in [1..Cardinality(C) -> C] :
           \A i, j \in 1..Cardinality(C) : i # j => p[i] # p[j] }

\* line 154
Order ==
    /\ pc = "order"
    /\ \E p \in ValueOrders(regionsFile) :
          orderedbychr' =
              OrderedByChr([i \in DOMAIN p |-> RegionIntervals(regionsFile)[p[i]]])
    /\ pc' = "pool"
    /\ UNCHANGED <<outdirVisible, args, regionsFile, loaded, dirs, files,
                   handles, scorerOnNone, nextTask, inflight, result,
                   scorerCutoffs, written>>
    /\ UNCHANGED pctVars

Min(a, b) == IF a < b THEN a ELSE b

\* lines 190-192: mp.Pool(args.threads) and the submission of the chunks;
\* every worker takes a batch from the task queue
StartPool ==
    /\ pc = "pool"
    /\ \E t \in 0..MaxThreads, n \in 0..MaxFDRIterations, d, m \in BOOLEAN :
          /\ args' = [args EXCEPT !.threads = t, !.FDR_iterations = n,
                                  !.one_dimension = d,
                                  !.dont_merge_footprints = m]
          /\ IF t < 1
             THEN /\ pc' = "error_pool"
                  /\ UNCHANGED <<nextTask, inflight>>
             ELSE /\ pc' = "map"
                  /\ nextTask' = Min(t, NumBatches(t))
                  /\ inflight' = 0..(Min(t, NumBatches(t)) - 1)
    /\ UNCHANGED <<outdirVisible, regionsFile, loaded, dirs, files, handles,
                   orderedbychr, scorerOnNone, result, scorerCutoffs, written>>
    /\ UNCHANGED pctVars

\* the intervals of the items of a batch, in the order map_f sees them
BatchIntervals(chunks, items) ==
    Flatten([i \in 1..NumChunks |-> IF i \in items THEN chunks[i] ELSE <<>>])

\* the worker that has finished batch b takes the next batch of the queue
WorkerTakesNext(b) ==
    IF nextTask < NumBatches(args.threads)
    THEN /\ inflight' = (inflight \ {b}) \cup {nextTask}
         /\ nextTask' = nextTask + 1
    ELSE /\ inflight' = inflight \ {b}
         /\ nextTask' = nextTask

\* mutant: a batch that raises is dropped and the map goes on
TaskFinishSwallowsError(b) ==
    /\ pc = "map"
    /\ b \in inflight
    /\ LET chunks == array_split(orderedbychr)
           items  == BatchItems(b, args.threads)
           todo   == BatchIntervals(chunks, items)
       IN /\ scorerCutoffs' =
                scorerCutoffs \cup CutoffsPassed(todo, args, scorerOnNone)
          /\ IF footprint_regions_raises(todo, args, scorerOnNone)
             THEN /\ pc' = pc
                  /\ result' = result
                  /\ WorkerTakesNext(b)
             ELSE /\ pc' = pc
                  /\ result' =
                       StoreResult(result, items,
                           [i \in items |->
                              footprint_regions(chunks[i], args, scorerOnNone)])
                  /\ WorkerTakesNext(b)
    /\ UNCHANGED <<outdirVisible, args, regionsFile, loaded, dirs, files,
                   handles, orderedbychr, scorerOnNone, written>>
    /\ UNCHANGED pctVars

\* lines 187-188 on every item of batch b, by one worker; a raise in map_f
\* makes pool.map raise in the main process
TaskFinish(b) ==
    /\ pc = "map"
    /\ b \in inflight
    /\ LET chunks == array_split(orderedbychr)
           items  == BatchItems(b, args.threads)
           todo   == BatchIntervals(chunks, items)
       IN /\ scorerCutoffs' =
                scorerCutoffs \cup CutoffsPassed(todo, args, scorerOnNone)
          /\ IF footprint_regions_raises(todo, args, scorerOnNone)
             THEN /\ pc' = "error_task"
                  /\ result' = result
                  /\ inflight' = inflight \ {b}
                  /\ nextTask' = nextTask
             ELSE /\ pc' = pc
                  /\ result' =
                       StoreResult(result, items,
                           [i \in items |->
                              footprint_regions(chunks[i], args, scorerOnNone)])
                  /\ WorkerTakesNext(b)
    /\ UNCHANGED <<outdirVisible, args, regionsFile, loaded, dirs, files,
                   handles, orderedbychr, scorerOnNone, written>>
    /\ UNCHANGED pctVars

\* line 192: pool.map returns when every batch has finished
MapReturn ==
    /\ pc = "map"
    /\ nextTask = NumBatches(args.threads)
    /\ inflight = {}
    /\ pc' = "write"
    /\ UNCHANGED pipeVars
    /\ UNCHANGED pctVars

\* for chunk in result: for fp, fdr_fps in chunk (lines 195-196)
Entries(res) == Flatten([i \in 1..NumChunks |-> res[i].value])

\* lines 197-213 for one interval; the open of line 208 raises IOError when
\* the directory does not exist
WriteInterval ==
    /\ pc = "write"
    /\ written < Len(Entries(result))
    /\ LET e  == Entries(result)[written + 1]
           f1 == AppendLines(files, WigFile, WigRecord(e.fp))
           f2 == AppendLines(f1, FdrFile, BedLines(e.fdr_fps))
       IN IF PvDir \in dirs
          THEN /\ files' = WritePv(f2, args.pv_cutoffs, e.fp)
               /\ pc' = pc
          ELSE /\ files' = f2
               /\ pc' = "error_io"
    /\ written' = written + 1
    /\ UNCHANGED <<outdirVisible, args, regionsFile, loaded, dirs, handles,
                   orderedbychr, scorerOnNone, nextTask, inflight, result,
                   scorerCutoffs>>
    /\ UNCHANGED pctVars

\* line 214
CloseWig ==
    /\ pc = "write"
    /\ written = Len(Entries(result))
    /\ handles' = handles \ {WigFile}
    /\ pc' = "done"
    /\ UNCHANGED <<outdirVisible, args, regionsFile, loaded, dirs, files,
                   orderedbychr, scorerOnNone, nextTask, inflight, result,
                   scorerCutoffs, written>>
    /\ UNCHANGED pctVars

Next ==
    \/ ParseRanges
    \/ ParsePv
    \/ CheckFDR
    \/ CheckOutdir
    \/ Load
    \/ MakeDirs
    \/ OpenOutputs
    \/ Order
    \/ StartPool
    \/ \E b \in 0..(NumChunks - 1) : TaskFinish(b)
    \/ MapReturn
    \/ WriteInterval
    \/ CloseWig

Spec == Init /\ [][Next]_vars

----------------------------------------------------------------------------
(* percentile as a function: SpecPct *)
Samples == UNION { [1..n -> (0 - MaxNeg)..MaxValue] : n \in 0..MaxSample }

Percents == { Frac(0, 1), Frac(1, 4), Frac(1, 2), Frac(2, 3), Frac(1, 1) }

InitPct ==
    /\ pc = "pct_call"
    /\ pN \in Samples
    /\ pPercent \in Percents
    /\ pRet = None
    /\ args = ArgsInit
    /\ outdirVisible = {}
    /\ regionsFile = <<>>
    /\ loaded = FALSE
    /\ dirs = {}
    /\ files = <<>>
    /\ handles = {}
    /\ orderedbychr = <<>>
    /\ scorerOnNone = "raise"
    /\ nextTask = 0
    /\ inflight = {}
    /\ result = [i \in 1..NumChunks |-> Pending]
    /\ scorerCutoffs = {}
    /\ written = 0

\* line 100 rebinds the local name N: the caller's list is left as it was
CallerList(N) == N

\* a call of percentile(pN, pPercent)
CallPercentile ==
    /\ pc = "pct_call"
    /\ pRet' = percentile(pN, pPercent)
    /\ pN' = CallerList(pN)
    /\ pc' = "pct_done"
    /\ UNCHANGED pPercent
    /\ UNCHANGED pipeVars

NextPct == CallPercentile

SpecPct == InitPct /\ [][NextPct]_vars

----------------------------------------------------------------------------
(* Properties *)

\* what footprint_regions returns for the whole ordered list, in one call
SeqResult == footprint_regions(orderedbychr, args, scorerOnNone)

\* the lines the first n entries of a result list put into each file
WigOf(S, n) == Flatten([i \in 1..n |-> WigRecord(S[i].fp)])

FdrOf(S, n) == Flatten([i \in 1..n |-> BedLines(S[i].fdr_fps)])

PvOf(S, n, c) ==
    Flatten([i \in 1..n |-> BedLines(footprints(S[i].fp, float(c), TRUE, "empty"))])

PvFiles == { f \in DOMAIN files : f.kind = "pv" }

C2_EmptySampleMeansNoCutoff ==
    /\ None \notin scorerCutoffs
    /\ \A i \in 1..NumChunks : \A j \in DOMAIN result[i].value :
          Fdr(result[i].value[j].fp.interval, args).none
             => result[i].value[j].fdr_fps = <<>>
    /\ pc = "error_task" => args.FDR_iterations <= 0

\* C3: the cutoff files are opened in a directory the run has created, and
\* a finished run has one file per cutoff holding the Scorer's calls at that
\* cutoff for every interval in input order.
C3_CutoffFilesWritten ==
    /\ pc = "error_io" => PvDir \in dirs
    /\ pc \in {"done", "error_io"} =>
          \A k \in DOMAIN args.pv_cutoffs :
             /\ PvFile(args.pv_cutoffs[k]) \in DOMAIN files
             /\ files[PvFile(args.pv_cutoffs[k])] =
                   PvOf(SeqResult, Len(orderedbychr), args.pv_cutoffs[k])

\* the FDR calls the claim of C4 allows for an interval with a computed
\* (numeric) cutoff
C4_Calls(e) ==
    LET fdr == Fdr(e.fp.interval, args)
    IN IF fdr.none THEN e.fdr_fps
       ELSE IF FloatLt(fdr, float(args.FDR_limit))
            THEN footprints(e.fp, fdr, ~args.dont_merge_footprints, "empty")
            ELSE <<>>

\* C4: for every interval with a computed cutoff the FDR calls are the
\* Scorer's calls at that cutoff when the cutoff is strictly below FDR_limit
\* and none otherwise (also when the two are equal), and the FDR file holds
\* exactly these calls for the intervals written.
C4_StrictFdrLimit ==
    /\ \A i \in 1..NumChunks : \A j \in DOMAIN result[i].value :
          result[i].value[j].fdr_fps = C4_Calls(result[i].value[j])
    /\ pc \in {"write", "done", "error_io"} =>
          files[FdrFile] =
             Flatten([i \in 1..written |-> BedLines(C4_Calls(Entries(result)[i]))])

\* C4 witness: the first interval's cutoff equals FDR_limit, the Scorer has
\* calls at that cutoff, and the interval has put no line in the FDR file.
C4_Witness ==
    /\ pc = "error_io"
    /\ written = 1
    /\ LET e == Entries(result)[1]
           fdr == Fdr(e.fp.interval, args)
       IN /\ FloatEq(fdr, float(args.FDR_limit))
          /\ footprints(e.fp, fdr, TRUE, "empty") # <<>>
    /\ files[FdrFile] = <<>>

\* the k-th smallest (k counted from 0) value of a list, by counting
KthSmallest(N, k) ==
    CHOOSE x \in Range(N) :
       /\ Cardinality({ i \in DOMAIN N : N[i] < x }) <= k
       /\ k < Cardinality({ i \in DOMAIN N : N[i] <= x })

ReverseSeq(S) == [i \in DOMAIN S |-> S[Len(S) + 1 - i]]

\* C5 (state part): on a non-empty sample the value returned is the
\* linearly interpolated percentile of the ascending order statistics: with
\* k = (n-1)*p, the k-th smallest value when k is an integer, otherwise
\* lower*(ceil k - k) + upper*(k - floor k); so p = 0 gives the minimum,
\* p = 1 the maximum, [1,2,3,4] at 0.5 gives 2.5, and the order of the input
\* does not matter.
C5_Value ==
    (pc = "pct_done" /\ pN # <<>>) =>
       LET n  == Len(pN)
           kn == (n - 1) * pPercent.num
           d  == pPercent.den
           f  == kn \div d
           r  == kn % d
       IN /\ ~pRet.none
          /\ r = 0 => FloatEq(pRet, float(KthSmallest(pN, f)))
          /\ r # 0 => pRet.num * d =
                        (KthSmallest(pN, f) * (d - r) + KthSmallest(pN, f + 1) * r)
                          * pRet.den
          /\ pPercent.num = 0 =>
                /\ pRet.num = pRet.den * KthSmallest(pN, 0)
                /\ \A i \in DOMAIN pN : FloatLe(pRet, float(pN[i]))
          /\ pPercent.num = pPercent.den =>
                \A i \in DOMAIN pN : FloatLe(float(pN[i]), pRet)
          /\ (pN = <<1, 2, 3, 4>> /\ FloatEq(pPercent, Frac(1, 2))) =>
                FloatEq(pRet, Frac(5, 2))
          /\ FloatEq(percentile(ReverseSeq(pN), pPercent), pRet)

\* C5: the value is the interpolated percentile (C5_Value) in every state,
\* and the call leaves the caller's list as it was.
C5_Percentile ==
    /\ []C5_Value
    /\ [][pc = "pct_call" => pN' = pN]_vars

\* C5 witness: an unsorted four element sample at 0.5, interpolated between
\* its two middle values.
C5_Witness ==
    /\ pc = "pct_done"
    /\ pN = <<4, 1, 3, 2>>
    /\ FloatEq(pPercent, Frac(1, 2))
    /\ FloatEq(pRet, Frac(5, 2))

\* nothing of the run beyond the parameter checks has happened
NothingDone ==
    /\ ~loaded
    /\ regionsFile = <<>>
    /\ dirs = {}
    /\ DOMAIN files = {}
    /\ handles = {}
    /\ orderedbychr = <<>>
    /\ nextTask = 0
    /\ inflight = {}
    /\ \A i \in 1..NumChunks : ~result[i].ready
    /\ written = 0

\* C6: a run that ends in a validation error has loaded nothing, started no
\* pool task, created no directory and opened no file; and a run that gets
\* past the checks has non-empty size ranges, parsed cutoffs, an FDR cutoff
\* inside (0,1), a negative FDR limit and an output directory without a
\* visible entry.
C6_ValidationFirst ==
    /\ pc \in {"error_validation", "parse_ranges", "parse_pv", "check_fdr",
               "check_outdir"} => NothingDone
    /\ pc \notin {"error_validation", "parse_ranges", "parse_pv", "check_fdr"} =>
          /\ args.shoulder_sizes # <<>>
          /\ args.footprint_sizes # <<>>
          /\ args.pv_cutoffs # <<>>
          /\ 0 < args.FDR_cutoff.num
          /\ args.FDR_cutoff.num < args.FDR_cutoff.den
          /\ args.FDR_limit < 0
    /\ pc \notin {"error_validation", "parse_ranges", "parse_pv", "check_fdr",
                   "check_outdir"} => outdirVisible = {}

\* C6 witness: the run was aborted by the FDR limit check, after the ranges
\* and the cutoffs had parsed.
C6_Witness ==
    /\ pc = "error_validation"
    /\ args.pv_cutoffs # <<>>
    /\ args.FDR_limit >= 0

\* re-parsing a score track: the list of [chrom, start, scores] blocks
RECURSIVE ParseWig(_, _)
ParseWig(lines, acc) ==
    IF lines = <<>> THEN acc
    ELSE LET l == Head(lines)
         IN IF l.kind = "fixedStep"
            THEN ParseWig(Tail(lines),
                          acc \o <<[chrom |-> l.a, start |-> l.b, scores |-> <<>>]>>)
            ELSE IF l.kind = "score" /\ acc # <<>>
                 THEN ParseWig(Tail(lines),
                               [acc EXCEPT ![Len(acc)].scores = @ \o <<l.a>>])
                 ELSE ParseWig(Tail(lines), acc)

\* C7: when the run has ended, the score track is the track header followed
\* by one block per interval of the ordered list, in order: a fixedStep
\* header with the interval's chromosome and start and one line per score,
\* so that re-parsing gives back every interval's score sequence.
C7_ScoreTrackComplete ==
    pc \in {"done", "error_io"} =>
       /\ Head(files[WigFile]) = TrackLine
       /\ ParseWig(Tail(files[WigFile]), <<>>) =
             [i \in DOMAIN orderedbychr |->
                 [chrom  |-> orderedbychr[i].chromosome,
                  start  |-> orderedbychr[i].startbp,
                  scores |-> Footprint(orderedbychr[i], args).scores]]
       /\ Len(files[WigFile]) =
             1 + Len(orderedbychr)
               + Len(Flatten([i \in DOMAIN orderedbychr |->
                                 Footprint(orderedbychr[i], args).scores]))

\* C8: the ordered list is a permutation of the intervals of the region
\* file, chromosomes in their order and contiguous, starts non-decreasing
\* inside a chromosome.
C8_OrderedByChr ==
    pc \notin {"parse_ranges", "parse_pv", "check_fdr", "check_outdir",
               "error_validation", "load", "makedirs", "open", "order"} =>
       /\ Len(orderedbychr) = Len(regionsFile)
       /\ Range(orderedbychr) = Range(regionsFile)
       /\ \A i, j \in DOMAIN orderedbychr :
             i < j =>
                \/ orderedbychr[i].chromosome < orderedbychr[j].chromosome
                \/ /\ orderedbychr[i].chromosome = orderedbychr[j].chromosome
                   /\ orderedbychr[i].startbp <= orderedbychr[j].startbp

\* C8 witness: a file that starts with a chromosome 2 interval and lists
\* chromosome 1 with descending starts has been ordered.
C8_Witness ==
    /\ pc = "pool"
    /\ Len(regionsFile) >= 3
    /\ regionsFile[1].chromosome = 2
    /\ \E i, j \in DOMAIN regionsFile :
          /\ i < j
          /\ regionsFile[i].chromosome = 1
          /\ regionsFile[j].chromosome = 1
          /\ regionsFile[i].startbp > regionsFile[j].startbp
    /\ orderedbychr[1].chromosome = 1

\* C9: when the run has ended, however it ended, no output handle is open.
C9_HandlesClosedAtEnd == pc \in Terminal => handles = {}

\* no per-interval record is in any output file
NoRecords ==
    /\ WigFile \in DOMAIN files => files[WigFile] = <<TrackLine>>
    /\ FdrFile \in DOMAIN files => files[FdrFile] = <<>>
    /\ PvFiles = {}

\* C10: no record is written while pool.map is running or when it has
\* raised, and the writer only ever runs on a result whose every slot is
\* filled.
C10_WriteAfterAllTasks ==
    /\ pc \in {"map", "error_task"} => NoRecords
    /\ pc \in {"write", "done", "error_io"} =>
          \A i \in 1..NumChunks : result[i].ready
    /\ ~NoRecords => \A i \in 1..NumChunks : result[i].ready

\* C10 witness: one batch has raised after another batch had delivered a
\* non-empty result, and no record has been written.
C10_Witness ==
    /\ pc = "error_task"
    /\ \E i \in 1..NumChunks : result[i].ready /\ result[i].value # <<>>
    /\ NoRecords
====
